---- MODULE Spec2Model ----
(***************************************************************************)
(* Model of the HackRx query-retrieval service: the FAISSManager vector    *)
(* index (src/src/vector_db/faiss_manager.py) and the request handler      *)
(* run_hackrx_submission (src/main.py) with its per-question task fan-out. *)
(***************************************************************************)
EXTENDS Integers, Sequences, FiniteSets, TLC

\* ------------------------------------------------------------------ bounds
MaxStored == 2      \* most entries the index holds in SpecIndex
MaxBatch == 2       \* longest embeddings/texts/metadatas argument of one add
MaxK == 2           \* largest k of a search in SpecIndex
MaxQuestions == 2   \* most questions of one request

\* ------------------------------------------------------- program constants
TOP_K_RETRIEVAL == 10
DIMENSION == 384    \* FAISSManager(dimension=384)

\* ------------------------------------------------------------- value sets
Vectors == {<<0, 0>>, <<0, 1>>, <<1, 0>>}   \* embeddings (fixed dimension)
Texts == {"a1", "b1"}                    \* chunk texts offered to add
NoMetadatas == <<"None">>                \* metadatas argument left out (None)
EmptyMeta == "{}"                        \* the empty mapping
GivenMeta == "{page}"                    \* a caller-supplied mapping

Min(a, b) == IF a < b THEN a ELSE b

SeqsUpTo(S, n) == UNION {[1..m -> S] : m \in 0..n}

\* squared L2 distance, as IndexFlatL2 reports it
SqDist(u, v) == (u[1] - v[1]) * (u[1] - v[1]) + (u[2] - v[2]) * (u[2] - v[2])

\* ------------------------------------------------------------- FAISSManager
\* self._index.search(query, k): the ids (0-based) of the k nearest stored
\* vectors, nearest first, padded with -1; the order among equal distances
\* is the library's and is left open here.
RECURSIVE Rank(_, _, _, _)
Rank(idx, q, n, chosen) ==
    IF n = 0 THEN {<< >>}
    ELSE LET cand == (0..(Len(idx) - 1)) \ chosen
             best == {i \in cand : \A j \in cand :
                         SqDist(idx[i + 1], q) <= SqDist(idx[j + 1], q)}
         IN UNION {{<<i>> \o s : s \in Rank(idx, q, n - 1, chosen \cup {i})} : i \in best}

FaissSearch(idx, q, k) ==
    LET n == Min(k, Len(idx))
    IN {r \o [j \in 1..(k - n) |-> -1] : r \in Rank(idx, q, n, {})}

\* search, line 69: the empty-index guard
IndexIsEmpty(idx) == Len(idx) = 0

\* search, line 87: self._texts[idx] raises IndexError past the end of _texts
SearchRaises(txts, ids) ==
    \E i \in 1..Len(ids) : ids[i] # -1 /\ ids[i] >= Len(txts)

\* search, lines 91-95: one result record
ResultEntry(idx, txts, metas, q, id) ==
    [text |-> txts[id + 1],
     metadata |-> IF id < Len(metas) THEN metas[id + 1] ELSE EmptyMeta,
     distance |-> SqDist(idx[id + 1], q)]

\* search, lines 79-96: the loop over indices[0], skipping -1, appending
ReverseResults(idx, txts, metas, q, ids) ==
    LET valid == SelectSeq(ids, LAMBDA id : id # -1)
        n == Len(valid)
    IN [i \in 1..n |-> ResultEntry(idx, txts, metas, q, valid[n + 1 - i])]

BuildResultsByPosition(idx, txts, metas, q, ids) ==
    LET valid == SelectSeq(ids, LAMBDA id : id # -1)
    IN [i \in 1..Len(valid) |-> ResultEntry(idx, txts, metas, q, i - 1)]

BuildResults(idx, txts, metas, q, ids) ==
    LET valid == SelectSeq(ids, LAMBDA id : id # -1)
    IN [i \in 1..Len(valid) |-> ResultEntry(idx, txts, metas, q, valid[i])]

\* add_documents, line 30: nothing to add
NothingToAdd(embs, txts) == Len(embs) = 0 \/ Len(txts) = 0

\* add_documents, line 34
LengthMismatch(embs, txts) == Len(embs) # Len(txts)

\* add_documents, line 41: self._index.add raises (the library's assertion
\* d == self.d) when the vectors are not of the index's dimension
DimensionMismatch(st) == st.model_dimension # st.dimension

\* add_documents, line 41: self._index.add
IndexAdd(idx, embs) == idx \o embs

\* add_documents, line 46: self._texts.extend
TextsExtend(txts, new) == txts \o new

\* add_documents, line 47: `if metadatas:` is false for None and for []
MetadatasGiven(metas) == metas # NoMetadatas /\ Len(metas) > 0

\* add_documents, line 48
MetadataMismatch(metas, txts) == MetadatasGiven(metas) /\ Len(metas) # Len(txts)

\* add_documents, lines 47-53
MetadatasExtend(stored, metas, txts) ==
    IF MetadatasGiven(metas)
    THEN (IF Len(metas) # Len(txts) THEN stored ELSE stored \o metas)
    ELSE stored \o [i \in 1..Len(txts) |-> EmptyMeta]

\* reset_index, line 100: self._index.reset()
KeepIndex(idx) == idx

IndexReset(idx) == << >>

\* reset_index, lines 101-102: self._texts = [], self._metadatas = []
KeepList(l) == l

ListReset(l) == << >>

\* ------------------------------------------------------------ collaborators
Runs == {"r1", "r2"}                     \* requests that may be in flight together
Docs == {"docA", "docB", "docNone", "docBlank", "docZero"}   \* payload.documents
QuestionPool == <<"q1", "q2", "q3", "q4">>
REQUIRED_AUTH_TOKEN == "secret"
NoHeader == << >>                        \* no Authorization header
Headers == {NoHeader, <<"Bearer", "secret">>, <<"Bearer", "wrong">>,
            <<"Basic", "secret">>, <<"Bearer">>, <<"Bearer", "secret", "x">>}
NoText == "None"
ModelDimensions == {384, 768}            \* output sizes of sentence-transformers
Dimensions == {384, 768}                 \* dimension arguments of FAISSManager(...)

\* str.lower() on the scheme
Lower(s) == IF s \in {"Bearer", "bearer", "BEARER"} THEN "bearer"
            ELSE IF s \in {"Basic", "basic"} THEN "basic" ELSE s

\* main.py lines 50-68: the bearer-token check
AuthorizedAnyScheme(h) ==
    /\ h # NoHeader
    /\ Len(h) = 2
    /\ h[2] = REQUIRED_AUTH_TOKEN

Authorized(h) ==
    /\ h # NoHeader
    /\ Len(h) = 2
    /\ Lower(h[1]) = "bearer"
    /\ h[2] = REQUIRED_AUTH_TOKEN

\* load_document_from_url and the extractor of the document's type: the raw
\* text, None when the download fails or the type is unsupported
RawText(d) == CASE d = "docA" -> " textA"
                [] d = "docB" -> "textB"
                [] d = "docZero" -> "textZ"
                [] d = "docBlank" -> " "
                [] OTHER -> NoText

\* str.strip() at the end of each extractor
Strip(t) == CASE t = " textA" -> "textA"
              [] t = " " -> ""
              [] OTHER -> t

\* extract_text_from_document: the stripped text of the document, or None
\* (line 114: the empty text becomes None)
ExtractText(d) ==
    IF RawText(d) = NoText \/ Strip(RawText(d)) = "" THEN NoText
    ELSE Strip(RawText(d))

\* main.py line 75: `document_text is None or not document_text.strip()`
NoDocumentText(t) == t = NoText \/ Strip(t) = ""

\* split_text_into_chunks
SplitChunks(t) == CASE t = "textA" -> <<"a1", "a2">>
                    [] t = "textB" -> <<"b1">>
                    [] OTHER -> << >>

\* main.py line 95: `if not text_chunks`
NeverNoChunks(cs) == FALSE

NoChunks(cs) == Len(cs) = 0

\* the document a chunk text comes from
ChunksOfDoc(d) == SplitChunks(ExtractText(d))

\* EmbeddingModel.get_embeddings on one text
Embed(t) == CASE t \in {"a1", "q1", "q4"} -> <<0, 1>>
              [] t \in {"a2", "q3"} -> <<1, 0>>
              [] OTHER -> <<0, 0>>

\* EmbeddingModel.get_embeddings on a list of texts
GetEmbeddings(ts) == [i \in 1..Len(ts) |-> Embed(ts[i])]

\* main.py line 136: the "not found" answer of a question
Fallback(q) == [kind |-> "fallback", question |-> q, contexts |-> << >>]

\* GroqLLMClient.generate_answer(question, contexts): its answer
Generate(q, ctx) == [kind |-> "generated", question |-> q, contexts |-> ctx]

NoResult == [kind |-> "none", question |-> "", contexts |-> << >>]

\* main.py line 133: `if not search_results`
AlwaysResults(results) == FALSE

NoSearchResults(results) == Len(results) = 0

\* main.py line 139
RetrievedContexts(results) == [i \in 1..Len(results) |-> results[i].text]

\* main.py lines 136 and 151-155: the task created for a question
NewTask(q, results) ==
    IF NoSearchResults(results)
    THEN [kind |-> "fallback", question |-> q, contexts |-> << >>,
          state |-> "pending", result |-> NoResult]
    ELSE [kind |-> "generate", question |-> q,
          contexts |-> RetrievedContexts(results),
          state |-> "pending", result |-> NoResult]

\* the value a task yields when it completes
TaskResult(t) == IF t.kind = "fallback" THEN Fallback(t.question)
                 ELSE Generate(t.question, t.contexts)

\* main.py lines 136, 151: llm_tasks.append
DropTask(ts, t) == ts

AppendTask(ts, t) == Append(ts, t)

\* asyncio.gather(*llm_tasks) returns once every task has a result
GatherCollectsPartial(ts) == \A i \in 1..Len(ts) : ts[i].state \in {"done", "failed"}

GatherCompletes(ts) == \A i \in 1..Len(ts) : ts[i].state = "done"

\* asyncio.gather raises the first exception of its tasks
GatherRaises(ts) == \E i \in 1..Len(ts) : ts[i].state = "failed"

\* asyncio.gather: the results, in the order of its arguments
GatherInCompletionOrder(ts, order) == [i \in 1..Len(order) |-> ts[order[i]].result]

Gather(ts, order) == [i \in 1..Len(ts) |-> ts[i].result]

\* cancelling gather cancels every task still pending
CancelPending(ts) ==
    [i \in 1..Len(ts) |-> IF ts[i].state = "pending"
                          THEN [ts[i] EXCEPT !.state = "cancelled"] ELSE ts[i]]

\* ------------------------------------------------------------------- state
VARIABLES
    index,       \* FAISSManager._index: the stored embeddings, by id
    texts,       \* FAISSManager._texts
    metadatas,   \* FAISSManager._metadatas
    last,        \* the last index operation called directly and its outcome
    pc,          \* per run: the await the handler (or its worker thread) is at
    payload,     \* per run: Authorization header, documents, questions
    locals,      \* per run: the handler's local variables
    llm_tasks,   \* per run: the tasks created so far
    response,    \* per run: what the caller got
    retrieved,   \* per run: search_results of each question, in loop order
    genCalls,    \* per run: the generate_answer calls made
    doneOrder,   \* per run: task positions in the order the tasks finished
    startup      \* the dimensions fixed when the module is loaded

ivars == <<index, texts, metadatas>>
rvars == <<pc, payload, locals, llm_tasks, response, retrieved, genCalls, doneOrder>>
vars == <<index, texts, metadatas, last, pc, payload, locals, llm_tasks, response,
          retrieved, genCalls, doneOrder, startup>>

NoOp == [op |-> "none", q |-> <<0, 0>>, k |-> 0, ids |-> << >>,
         results |-> << >>, error |-> "none", before |-> 0,
         prevOp |-> "none", prevBefore |-> 0,
         n_embeddings |-> 0, n_texts |-> 0, n_metadatas |-> 0,
         embs |-> << >>, txts |-> << >>, dimension |-> 0]

\* the record of a direct call: op, the count before it, and whether the call
\* before it was a reset (and of how many entries)
Called(op) == [NoOp EXCEPT !.op = op, !.before = Len(index),
                           !.prevOp = IF last.op = "reset" THEN "reset" ELSE "other",
                           !.prevBefore = IF last.op = "reset" THEN last.before ELSE 0]

NoPayload == [auth |-> NoHeader, documents |-> "", questions |-> << >>]
NoLocals == [document_text |-> NoText, text_chunks |-> << >>,
             chunk_embeddings |-> << >>, qi |-> 0, query_embedding |-> <<0, 0>>,
             ids |-> << >>, seen |-> << >>]
NoResponse == [status |-> "none", answers |-> << >>, detail |-> ""]

InitRuns ==
    /\ pc = [r \in Runs |-> "idle"]
    /\ payload = [r \in Runs |-> NoPayload]
    /\ locals = [r \in Runs |-> NoLocals]
    /\ llm_tasks = [r \in Runs |-> << >>]
    /\ response = [r \in Runs |-> NoResponse]
    /\ retrieved = [r \in Runs |-> << >>]
    /\ genCalls = [r \in Runs |-> << >>]
    /\ doneOrder = [r \in Runs |-> << >>]

\* main.py lines 28-29: EmbeddingModel() loads the sentence-transformer of
\* MODEL_NAME, whose output dimension is md; FAISSManager(dimension=384)
\* builds IndexFlatL2(384); nothing compares the two
Loaded(md) == [dimension |-> DIMENSION, model_dimension |-> md, instance |-> 1]

\* FAISSManager.__new__, lines 20-22
InitStores ==
    /\ index = << >>
    /\ texts = << >>
    /\ metadatas = << >>
    /\ last = NoOp

\* the module loaded with all-MiniLM-L6-v2, whose embeddings have 384 entries
InitIndex ==
    /\ InitStores
    /\ InitRuns
    /\ startup = Loaded(DIMENSION)

\* the module loaded with whatever model the name resolves to
InitStartup ==
    /\ InitStores
    /\ InitRuns
    /\ \E md \in ModelDimensions : startup = Loaded(md)

\* len(metadatas) as the caller passed it, -1 for None
MetadatasLen(metas) == IF metas = NoMetadatas THEN -1 ELSE Len(metas)

\* the record of an add_documents call: the lengths of embeddings and texts,
\* and, once the call is past its guards (lines 30-35), the batch itself and
\* the length of metadatas, which is read only from line 47 on
CalledAdd(embs, txts, metas, past) ==
    [Called("add") EXCEPT !.n_embeddings = Len(embs), !.n_texts = Len(txts),
                          !.n_metadatas = IF past THEN MetadatasLen(metas) ELSE 0,
                          !.embs = IF past THEN embs ELSE << >>,
                          !.txts = IF past THEN txts ELSE << >>]

\* FAISSManager.add_documents called with any arguments
AddDocuments ==
    \E embs \in {e \in SeqsUpTo(Vectors, MaxBatch) : Len(index) + Len(e) <= MaxStored},
       txts \in SeqsUpTo(Texts, MaxBatch),
       metas \in {NoMetadatas} \cup SeqsUpTo({GivenMeta}, MaxBatch) :
        /\ UNCHANGED <<rvars, startup>>
        /\ IF NothingToAdd(embs, txts)
           THEN /\ UNCHANGED ivars
                /\ last' = CalledAdd(embs, txts, metas, FALSE)
           ELSE IF LengthMismatch(embs, txts)
           THEN /\ UNCHANGED ivars
                /\ last' = [CalledAdd(embs, txts, metas, FALSE) EXCEPT
                               !.error = "ValueError"]
           ELSE /\ index' = IndexAdd(index, embs)
                /\ texts' = TextsExtend(texts, txts)
                /\ metadatas' = MetadatasExtend(metadatas, metas, txts)
                /\ last' = [CalledAdd(embs, txts, metas, TRUE) EXCEPT
                               !.error = IF MetadataMismatch(metas, txts)
                                         THEN "ValueError" ELSE "none"]

\* search, lines 69-96, as one call: every outcome it can have
SearchOutcomes(idx, txts, metas, q, k) ==
    IF IndexIsEmpty(idx)
    THEN {[ids |-> << >>, results |-> << >>, error |-> "none"]}
    ELSE {IF SearchRaises(txts, ids)
          THEN [ids |-> ids, results |-> << >>, error |-> "IndexError"]
          ELSE [ids |-> ids, results |-> BuildResults(idx, txts, metas, q, ids),
                error |-> "none"] : ids \in FaissSearch(idx, q, k)}

\* FAISSManager.search called with any query vector and k
Search ==
    \E q \in Vectors, k \in 1..MaxK :
        \E o \in SearchOutcomes(index, texts, metadatas, q, k) :
            /\ last' = [Called("search") EXCEPT !.q = q, !.k = k, !.ids = o.ids,
                                                !.results = o.results,
                                                !.error = o.error]
            /\ UNCHANGED <<ivars, rvars, startup>>

\* FAISSManager.reset_index
ResetIndex ==
    /\ index' = IndexReset(index)
    /\ texts' = ListReset(texts)
    /\ metadatas' = ListReset(metadatas)
    /\ last' = Called("reset")
    /\ UNCHANGED <<rvars, startup>>

NextIndex == AddDocuments \/ Search \/ ResetIndex

SpecIndex == InitIndex /\ [][NextIndex]_vars

\* FAISSManager.__new__, line 15: `if cls._instance is None`
AlwaysCreates(st) == TRUE

NewCreates(st) == st.instance = 0

\* FAISSManager(dimension=d) called again, lines 13-24: a new instance with a
\* new index and empty lists only when there is none yet, else the instance
\* there is
Construct ==
    \E d \in Dimensions :
        /\ IF NewCreates(startup)
           THEN /\ startup' = [startup EXCEPT !.instance = @ + 1, !.dimension = d]
                /\ index' = << >>
                /\ texts' = << >>
                /\ metadatas' = << >>
           ELSE UNCHANGED <<ivars, startup>>
        /\ last' = [Called("new") EXCEPT !.dimension = d]
        /\ UNCHANGED rvars

NextConstruct == AddDocuments \/ Search \/ ResetIndex \/ Construct

\* direct calls of the index, constructions of FAISSManager among them
SpecConstruct == InitIndex /\ [][NextConstruct]_vars

\* ------------------------------------------------- run_hackrx_submission
\* the handler of run r has neither returned nor raised
Live(r) == response[r].status = "none"

Questions(r) == payload[r].questions

Reply(status, answers, detail) ==
    [status |-> status, answers |-> answers, detail |-> detail]

\* main.py lines 119, 157: the next question's embedding, or the gather
LoopPc(r, i) == IF i > Len(Questions(r)) THEN "gather" ELSE "embed_q"

\* lines 50-73: the request arrives, the bearer check, extraction is submitted
StartRun(r) ==
    /\ pc[r] = "idle"
    /\ \E h \in Headers, d \in Docs, n \in 0..MaxQuestions :
        /\ payload' = [payload EXCEPT ![r] =
                          [auth |-> h, documents |-> d,
                           questions |-> SubSeq(QuestionPool, 1, n)]]
        /\ IF Authorized(h)
           THEN /\ pc' = [pc EXCEPT ![r] = "extract"]
                /\ UNCHANGED response
           ELSE /\ pc' = [pc EXCEPT ![r] = "done"]
                /\ response' = [response EXCEPT ![r] = Reply("401", << >>, "auth")]
    /\ UNCHANGED <<ivars, last, startup, locals, llm_tasks, retrieved, genCalls, doneOrder>>

\* lines 73-93: extraction returns; 400 on no text, else chunking is submitted
ExtractDone(r) ==
    /\ pc[r] = "extract" /\ Live(r)
    /\ LET t == ExtractText(payload[r].documents)
       IN IF NoDocumentText(t)
          THEN /\ pc' = [pc EXCEPT ![r] = "done"]
               /\ response' = [response EXCEPT ![r] = Reply("400", << >>, "text")]
               /\ UNCHANGED locals
          ELSE /\ pc' = [pc EXCEPT ![r] = "chunk"]
               /\ locals' = [locals EXCEPT ![r].document_text = t]
               /\ UNCHANGED response
    /\ UNCHANGED <<ivars, last, startup, payload, llm_tasks, retrieved, genCalls, doneOrder>>

\* lines 88-105: chunking returns; 400 on no chunks, else embedding is submitted
ChunkDoneAfterReset(r) ==
    /\ pc[r] = "chunk" /\ Live(r)
    /\ LET cs == SplitChunks(locals[r].document_text)
       IN IF NoChunks(cs)
          THEN /\ pc' = [pc EXCEPT ![r] = "done"]
               /\ response' = [response EXCEPT ![r] = Reply("400", << >>, "chunks")]
               /\ UNCHANGED locals
          ELSE /\ pc' = [pc EXCEPT ![r] = "embed"]
               /\ locals' = [locals EXCEPT ![r].text_chunks = cs]
               /\ UNCHANGED response
    /\ index' = IndexReset(index)
    /\ texts' = ListReset(texts)
    /\ metadatas' = ListReset(metadatas)
    /\ UNCHANGED <<last, startup, payload, llm_tasks, retrieved, genCalls, doneOrder>>

ChunkDone(r) ==
    /\ pc[r] = "chunk" /\ Live(r)
    /\ LET cs == SplitChunks(locals[r].document_text)
       IN IF NoChunks(cs)
          THEN /\ pc' = [pc EXCEPT ![r] = "done"]
               /\ response' = [response EXCEPT ![r] = Reply("400", << >>, "chunks")]
               /\ UNCHANGED locals
          ELSE /\ pc' = [pc EXCEPT ![r] = "embed"]
               /\ locals' = [locals EXCEPT ![r].text_chunks = cs]
               /\ UNCHANGED response
    /\ UNCHANGED <<ivars, last, startup, payload, llm_tasks, retrieved, genCalls, doneOrder>>

\* lines 105-111: the chunk embeddings return, reset_index() runs on the event
\* loop, add_documents is submitted to a worker thread
EmbedChunksDone(r) ==
    /\ pc[r] = "embed" /\ Live(r)
    /\ locals' = [locals EXCEPT
                     ![r].chunk_embeddings = GetEmbeddings(locals[r].text_chunks)]
    /\ index' = IndexReset(index)
    /\ texts' = ListReset(texts)
    /\ metadatas' = ListReset(metadatas)
    /\ pc' = [pc EXCEPT ![r] = "add_index"]
    /\ UNCHANGED <<last, startup, payload, llm_tasks, response, retrieved, genCalls, doneOrder>>

\* add_documents in its worker thread, lines 30-41: the guards and _index.add
AddIndexNotAwaited(r) ==
    /\ pc[r] = "add_index"
    /\ index' = IndexAdd(index, locals[r].chunk_embeddings)
    /\ pc' = [pc EXCEPT ![r] = IF Live(r) THEN LoopPc(r, 1) ELSE "done"]
    /\ locals' = [locals EXCEPT ![r].qi = 1]
    /\ UNCHANGED <<texts, metadatas, last, startup, payload, llm_tasks, response, retrieved,
                   genCalls, doneOrder>>

AddIndex(r) ==
    /\ pc[r] = "add_index"
    /\ LET embs == locals[r].chunk_embeddings
           cs == locals[r].text_chunks
       IN IF NothingToAdd(embs, cs)
          THEN /\ pc' = [pc EXCEPT ![r] = IF Live(r) THEN LoopPc(r, 1) ELSE "done"]
               /\ locals' = [locals EXCEPT ![r].qi = 1]
               /\ UNCHANGED <<index, response>>
          ELSE IF LengthMismatch(embs, cs) \/ DimensionMismatch(startup)
          THEN /\ pc' = [pc EXCEPT ![r] = "done"]
               /\ response' = [response EXCEPT ![r] =
                                  IF Live(r) THEN Reply("500", << >>, "add") ELSE @]
               /\ UNCHANGED <<index, locals>>
          ELSE /\ index' = IndexAdd(index, embs)
               /\ pc' = [pc EXCEPT ![r] = "add_texts"]
               /\ UNCHANGED <<locals, response>>
    /\ UNCHANGED <<texts, metadatas, last, startup, payload, llm_tasks, retrieved, genCalls,
                   doneOrder>>

\* add_documents in its worker thread, lines 46-53, then lines 112-123 of the
\* handler: the first question's embedding is submitted (or the gather begins)
AddTexts(r) ==
    /\ pc[r] = "add_texts"
    /\ texts' = TextsExtend(texts, locals[r].text_chunks)
    /\ metadatas' = MetadatasExtend(metadatas, NoMetadatas, locals[r].text_chunks)
    /\ pc' = [pc EXCEPT ![r] = IF Live(r) THEN LoopPc(r, 1) ELSE "done"]
    /\ locals' = [locals EXCEPT ![r].qi = 1]
    /\ UNCHANGED <<index, last, startup, payload, llm_tasks, response, retrieved, genCalls,
                   doneOrder>>

\* line 123: the question's embedding returns; line 127: search is submitted
EmbedQuestionDone(r) ==
    /\ pc[r] = "embed_q" /\ Live(r)
    /\ locals' = [locals EXCEPT
                     ![r].query_embedding = Embed(Questions(r)[locals[r].qi])]
    /\ pc' = [pc EXCEPT ![r] = "search_index"]
    /\ UNCHANGED <<ivars, last, startup, payload, llm_tasks, response, retrieved, genCalls,
                   doneOrder>>

\* line 123: get_embeddings raises (embedding_model.py line 26, or the encoder)
EmbedQuestionRaises(r) ==
    /\ pc[r] = "embed_q" /\ Live(r)
    /\ pc' = [pc EXCEPT ![r] = "done"]
    /\ response' = [response EXCEPT ![r] = Reply("500", << >>, "embed")]
    /\ UNCHANGED <<ivars, last, startup, payload, locals, llm_tasks, retrieved, genCalls,
                   doneOrder>>

\* lines 133-155 and the loop's next iteration: the task of question qi is
\* created from its search results and the next await is reached
CreateTask(r, results) ==
    LET i == locals[r].qi
        q == Questions(r)[i]
    IN /\ llm_tasks' = [llm_tasks EXCEPT ![r] = AppendTask(@, NewTask(q, results))]
       /\ retrieved' = [retrieved EXCEPT ![r] = Append(@, results)]
       /\ genCalls' = [genCalls EXCEPT ![r] =
                          IF NoSearchResults(results) THEN @
                          ELSE Append(@, [pos |-> i, question |-> q,
                                          contexts |-> RetrievedContexts(results)])]
       /\ locals' = [locals EXCEPT ![r].qi = i + 1,
                                    ![r].query_embedding = NoLocals.query_embedding,
                                    ![r].ids = << >>, ![r].seen = << >>]
       /\ pc' = [pc EXCEPT ![r] = LoopPc(r, i + 1)]

\* search in its worker thread, lines 69-77: the empty-index guard and
\* _index.search
SearchIndex(r) ==
    /\ pc[r] = "search_index" /\ Live(r)
    /\ IF IndexIsEmpty(index)
       THEN CreateTask(r, << >>)
       ELSE /\ \E ids \in FaissSearch(index, locals[r].query_embedding, TOP_K_RETRIEVAL) :
                 locals' = [locals EXCEPT ![r].ids = ids, ![r].seen = index]
            /\ pc' = [pc EXCEPT ![r] = "search_texts"]
            /\ UNCHANGED <<llm_tasks, retrieved, genCalls>>
    /\ UNCHANGED <<ivars, last, startup, payload, response, doneOrder>>

\* search in its worker thread, lines 79-96: the results are built from _texts
\* and _metadatas; an id past the end of _texts raises IndexError
SearchTexts(r) ==
    /\ pc[r] = "search_texts" /\ Live(r)
    /\ IF SearchRaises(texts, locals[r].ids)
       THEN /\ pc' = [pc EXCEPT ![r] = "done"]
            /\ response' = [response EXCEPT ![r] = Reply("500", << >>, "search")]
            /\ UNCHANGED <<locals, llm_tasks, retrieved, genCalls>>
       ELSE /\ CreateTask(r, BuildResults(locals[r].seen, texts, metadatas,
                                          locals[r].query_embedding, locals[r].ids))
            /\ UNCHANGED response
    /\ UNCHANGED <<ivars, last, startup, payload, doneOrder>>

\* a task finishes with its result
TaskComplete(r) ==
    \E i \in 1..Len(llm_tasks[r]) :
        /\ llm_tasks[r][i].state = "pending"
        /\ llm_tasks' = [llm_tasks EXCEPT ![r][i] =
                            [llm_tasks[r][i] EXCEPT
                                !.state = "done",
                                !.result = TaskResult(llm_tasks[r][i])]]
        /\ doneOrder' = [doneOrder EXCEPT ![r] = Append(@, i)]
        /\ UNCHANGED <<ivars, last, startup, pc, payload, locals, response, retrieved, genCalls>>

\* generate_answer raises
TaskFails(r) ==
    \E i \in 1..Len(llm_tasks[r]) :
        /\ llm_tasks[r][i].state = "pending"
        /\ llm_tasks[r][i].kind = "generate"
        /\ llm_tasks' = [llm_tasks EXCEPT ![r][i].state = "failed"]
        /\ UNCHANGED <<ivars, last, startup, pc, payload, locals, response, retrieved, genCalls,
                       doneOrder>>

\* lines 159-163: gather returns the results and the handler answers 200
GatherReturns(r) ==
    /\ pc[r] = "gather" /\ Live(r)
    /\ GatherCompletes(llm_tasks[r])
    /\ response' = [response EXCEPT ![r] =
                       Reply("200", Gather(llm_tasks[r], doneOrder[r]), "")]
    /\ pc' = [pc EXCEPT ![r] = "done"]
    /\ UNCHANGED <<ivars, last, startup, payload, locals, llm_tasks, retrieved, genCalls,
                   doneOrder>>

\* line 159: gather raises a task's exception; the other tasks are left running
GatherFails(r) ==
    /\ pc[r] = "gather" /\ Live(r)
    /\ GatherRaises(llm_tasks[r])
    /\ response' = [response EXCEPT ![r] = Reply("500", << >>, "task")]
    /\ pc' = [pc EXCEPT ![r] = "done"]
    /\ UNCHANGED <<ivars, last, startup, payload, locals, llm_tasks, retrieved, genCalls,
                   doneOrder>>

\* the request is cancelled while the handler waits at an await: CancelledError
\* is raised there; only at the gather (line 159) are the tasks cancelled; a
\* worker thread running add_documents runs on to its end
Cancel(r) ==
    /\ Live(r)
    /\ pc[r] \in {"extract", "chunk", "embed", "add_index", "add_texts", "embed_q",
                  "search_index", "search_texts", "gather"}
    /\ response' = [response EXCEPT ![r] = Reply("cancelled", << >>, "")]
    /\ llm_tasks' = [llm_tasks EXCEPT ![r] =
                        IF pc[r] = "gather" THEN CancelPending(@) ELSE @]
    /\ pc' = [pc EXCEPT ![r] = IF @ \in {"add_index", "add_texts"} THEN @ ELSE "done"]
    /\ UNCHANGED <<ivars, last, startup, payload, locals, retrieved, genCalls, doneOrder>>

Init == InitIndex

Next ==
    \/ \E r \in Runs : StartRun(r)
    \/ \E r \in Runs : ExtractDone(r)
    \/ \E r \in Runs : ChunkDone(r)
    \/ \E r \in Runs : EmbedChunksDone(r)
    \/ \E r \in Runs : AddIndex(r)
    \/ \E r \in Runs : AddTexts(r)
    \/ \E r \in Runs : EmbedQuestionDone(r)
    \/ \E r \in Runs : EmbedQuestionRaises(r)
    \/ \E r \in Runs : SearchIndex(r)
    \/ \E r \in Runs : SearchTexts(r)
    \/ \E r \in Runs : TaskComplete(r)
    \/ \E r \in Runs : TaskFails(r)
    \/ \E r \in Runs : GatherReturns(r)
    \/ \E r \in Runs : GatherFails(r)
    \/ \E r \in Runs : Cancel(r)

\* requests in flight together
Spec == Init /\ [][Next]_vars

\* requests one after another: a request arrives only when no other is in flight
StartRunAlone(r) ==
    /\ \A s \in Runs \ {r} : pc[s] \in {"idle", "done"}
    /\ StartRun(r)

NextSeq ==
    \/ \E r \in Runs : StartRunAlone(r)
    \/ \E r \in Runs : ExtractDone(r)
    \/ \E r \in Runs : ChunkDone(r)
    \/ \E r \in Runs : EmbedChunksDone(r)
    \/ \E r \in Runs : AddIndex(r)
    \/ \E r \in Runs : AddTexts(r)
    \/ \E r \in Runs : EmbedQuestionDone(r)
    \/ \E r \in Runs : EmbedQuestionRaises(r)
    \/ \E r \in Runs : SearchIndex(r)
    \/ \E r \in Runs : SearchTexts(r)
    \/ \E r \in Runs : TaskComplete(r)
    \/ \E r \in Runs : TaskFails(r)
    \/ \E r \in Runs : GatherReturns(r)
    \/ \E r \in Runs : GatherFails(r)
    \/ \E r \in Runs : Cancel(r)

SpecSeq == Init /\ [][NextSeq]_vars

\* requests one after another, served by the module however it loaded
SpecStartup == InitStartup /\ [][NextSeq]_vars

\* ------------------------------------------------------------------ claims
\* the ids _index.search reported, without the -1 padding
ValidIds(ids) == SelectSeq(ids, LAMBDA id : id # -1)

\* C9: a search on an index of M entries with k >= 1 returns exactly min(k, M)
\* results, in non-decreasing distance to the query, and they are the min(k, M)
\* nearest stored entries (each a distinct stored entry, no entry left out is
\* nearer than one returned); no error, also for M = 0 and for M < k.
C9_SearchReturnsNearest ==
    last.op = "search" =>
        LET M == Len(index)
            n == Min(last.k, M)
            res == last.results
            got == ValidIds(last.ids)
        IN /\ last.error = "none"
           /\ Len(res) = n
           /\ \A i \in 1..(n - 1) : res[i].distance <= res[i + 1].distance
           /\ Len(got) = n
           /\ \A i \in 1..n : \A j \in 1..n : i # j => got[i] # got[j]
           /\ \A i \in 1..n :
                /\ got[i] \in 0..(M - 1)
                /\ res[i].text = texts[got[i] + 1]
                /\ res[i].distance = SqDist(index[got[i] + 1], last.q)
           /\ \A j \in 0..(M - 1) :
                (\A i \in 1..n : got[i] # j) =>
                    \A i \in 1..n : res[i].distance <= SqDist(index[j + 1], last.q)

\* a search with k = M = 2 whose nearer entry was inserted second
C9_Witness ==
    /\ last.op = "search" /\ last.k = 2 /\ Len(index) = 2
    /\ Len(last.results) = 2
    /\ last.results[1].distance < last.results[2].distance
    /\ SqDist(index[2], last.q) < SqDist(index[1], last.q)

\* C10: after reset_index, whatever preceded it, embeddings, texts and metadatas
\* are all empty, and a search called next returns the empty sequence without
\* an error, for every vector and k.
C10_ResetEmptiesIndex ==
    /\ last.op = "reset" =>
          /\ Len(index) = 0 /\ Len(texts) = 0 /\ Len(metadatas) = 0
          /\ \A q \in Vectors, k \in 1..MaxK :
                \A o \in SearchOutcomes(index, texts, metadatas, q, k) :
                    o.results = << >> /\ o.error = "none"
    /\ (last.op = "search" /\ last.prevOp = "reset") =>
          /\ last.results = << >>
          /\ last.error = "none"

\* a search right after the reset of a populated index
C10_Witness ==
    /\ last.op = "search" /\ last.prevOp = "reset" /\ last.prevBefore >= 1
    /\ last.results = << >>

\* the answer the handler owes question i of run r, from what its search returned
ExpectedAnswer(r, i) ==
    IF Len(retrieved[r][i]) = 0
    THEN Fallback(Questions(r)[i])
    ELSE Generate(Questions(r)[i], RetrievedContexts(retrieved[r][i]))

\* C1: a run that returns 200 for N questions returns exactly N answers, and
\* answers[i] is the result produced for questions[i] (its fallback or its
\* generation result), in whatever order the tasks finished.
C1_AnswersInQuestionOrder ==
    \A r \in Runs :
        response[r].status = "200" =>
            /\ Len(response[r].answers) = Len(Questions(r))
            /\ Len(retrieved[r]) = Len(Questions(r))
            /\ \A i \in 1..Len(Questions(r)) :
                 /\ response[r].answers[i].question = Questions(r)[i]
                 /\ response[r].answers[i] = ExpectedAnswer(r, i)

\* a 200 for two questions whose second task finished first
C1_Witness ==
    \E r \in Runs :
        /\ response[r].status = "200"
        /\ Len(Questions(r)) = 2
        /\ doneOrder[r] = <<2, 1>>

\* the index a search of run r must see: exactly the chunks of r's document
OwnEmbeddings(r) == GetEmbeddings(ChunksOfDoc(payload[r].documents))

\* results holding the texts of run r's own chunks, all of them, and no other
OwnResults(r, results) ==
    /\ Len(results) = Min(TOP_K_RETRIEVAL, Len(ChunksOfDoc(payload[r].documents)))
    /\ Len(results) > 0
    /\ \A j \in 1..Len(results) :
         \E c \in 1..Len(ChunksOfDoc(payload[r].documents)) :
             results[j].text = ChunksOfDoc(payload[r].documents)[c]

\* C2: with runs on different documents in flight together, every search of a
\* run sees the index holding exactly that run's chunks, so every context a
\* run gets is a chunk of its own document, never another document's chunk,
\* and never the outcome of an empty or half-populated index.
C2_RunOwnsIndex ==
    \A r \in Runs : \A s \in Runs \ {r} :
        (pc[r] # "idle" /\ pc[s] # "idle"
            /\ payload[r].documents # payload[s].documents) =>
            /\ pc[r] = "search_texts" => locals[r].seen = OwnEmbeddings(r)
            /\ response[r].detail # "search"
            /\ \A i \in 1..Len(retrieved[r]) : OwnResults(r, retrieved[r][i])

\* the generate_answer calls made for question i of run r
CallsFor(r, i) == {j \in 1..Len(genCalls[r]) : genCalls[r][j].pos = i}

\* C3: for each question, empty search results give the fallback answer and no
\* generate_answer call; non-empty results give exactly one generate_answer
\* call, with the question and its contexts, whose result is the answer.
C3_FallbackOrGenerateOnce ==
    \A r \in Runs :
        /\ Len(llm_tasks[r]) = Len(retrieved[r])
        /\ \A i \in 1..Len(retrieved[r]) :
             LET t == llm_tasks[r][i]
                 q == Questions(r)[i]
             IN /\ t.question = q
                /\ t.state = "done" => t.result = ExpectedAnswer(r, i)
                /\ response[r].status = "200" =>
                       response[r].answers[i] = ExpectedAnswer(r, i)
                /\ IF Len(retrieved[r][i]) = 0
                   THEN /\ t.kind = "fallback"
                        /\ CallsFor(r, i) = {}
                        /\ ExpectedAnswer(r, i).kind = "fallback"
                   ELSE /\ t.kind = "generate"
                        /\ Cardinality(CallsFor(r, i)) = 1
                        /\ \A j \in CallsFor(r, i) :
                             /\ genCalls[r][j].question = q
                             /\ genCalls[r][j].contexts =
                                    RetrievedContexts(retrieved[r][i])

\* one 200 holding a fallback answer and a generated answer
C3_Witness ==
    \E r \in Runs :
        /\ response[r].status = "200"
        /\ \E i, j \in 1..Len(response[r].answers) :
             /\ response[r].answers[i].kind = "fallback"
             /\ response[r].answers[j].kind = "generated"

\* a chunk is relevant to a question when their embeddings coincide
Relevant(q, c) == SqDist(Embed(q), Embed(c)) = 0

NoRelevantChunk(q, d) ==
    \A c \in 1..Len(ChunksOfDoc(d)) : ~Relevant(q, ChunksOfDoc(d)[c])

\* C4: in a run whose document was ingested (it has chunks), a question with
\* no relevant chunk in the document gets the fallback answer at its position,
\* and the answers are one per question in input order.
C4_IrrelevantQuestionGetsFallback ==
    \A r \in Runs :
        (response[r].status = "200" /\ Len(ChunksOfDoc(payload[r].documents)) > 0) =>
            /\ Len(response[r].answers) = Len(Questions(r))
            /\ \A i \in 1..Len(Questions(r)) :
                 NoRelevantChunk(Questions(r)[i], payload[r].documents) =>
                     response[r].answers[i] = Fallback(Questions(r)[i])

\* a unit of run r has failed: a task raised, or the embedding or the search
\* of a question raised
UnitFailed(r) ==
    \/ \E i \in 1..Len(llm_tasks[r]) : llm_tasks[r][i].state = "failed"
    \/ response[r].detail \in {"embed", "search"}

\* C5: once any unit of a run has failed, the run returns no answers: its
\* response is never 200 and carries no answers list, however many other
\* units completed.
C5_FailFast ==
    \A r \in Runs :
        UnitFailed(r) => /\ response[r].status # "200"
                         /\ response[r].answers = << >>

\* a 500 from the gather with another task already completed
C5_Witness ==
    \E r \in Runs :
        /\ response[r].status = "500" /\ response[r].detail = "task"
        /\ \E i, j \in 1..Len(llm_tasks[r]) :
             llm_tasks[r][i].state = "failed" /\ llm_tasks[r][j].state = "done"

\* the retrieval (embedding, then search) of question j of run r is in flight
RetrievalInFlight(r, j) ==
    /\ pc[r] \in {"embed_q", "search_index", "search_texts"}
    /\ locals[r].qi = j

\* the retrieval of question j of run r has been started
RetrievalStarted(r, j) ==
    /\ pc[r] \in {"embed_q", "search_index", "search_texts", "gather", "done"}
    /\ locals[r].qi >= j

C7_CancelStopsAllUnits ==
    \A r \in Runs :
        response[r].status = "cancelled" =>
            \A i \in 1..Len(llm_tasks[r]) : llm_tasks[r][i].state # "pending"

\* C8: with requests one after another, once a run has added its chunks after
\* another run completed, the index holds exactly its chunks (count, texts and
\* embeddings) and no search returns a text of another document.
C8_SequentialIngestIsolation ==
    \A r \in Runs : \A s \in Runs \ {r} :
        (pc[s] = "done" /\ pc[r] \in {"embed_q", "search_index", "search_texts", "gather"}) =>
            /\ Len(index) = Len(locals[r].text_chunks)
            /\ texts = ChunksOfDoc(payload[r].documents)
            /\ index = OwnEmbeddings(r)
            /\ Len(metadatas) = Len(texts)
            /\ \A q \in Vectors :
                 \A o \in SearchOutcomes(index, texts, metadatas, q, TOP_K_RETRIEVAL) :
                     /\ o.error = "none"
                     /\ OwnResults(r, o.results)

\* run B on the one-chunk document, past its add, after run A answered 200 on
\* the two-chunk document
C8_Witness ==
    \E r \in Runs : \E s \in Runs \ {r} :
        /\ pc[s] = "done" /\ response[s].status = "200"
        /\ payload[s].documents = "docA" /\ payload[r].documents = "docB"
        /\ pc[r] = "search_index"

\* the last call was an add_documents of n >= 1 vectors with as many texts to
\* an empty index
AddedAlignedToEmpty ==
    /\ last.op = "add" /\ last.before = 0
    /\ last.n_embeddings = last.n_texts /\ last.n_embeddings > 0

\* C11 as claimed: after adding n vectors with aligned texts to an empty index,
\* for every i, search(embeddings[i], k=1) returns exactly one result, whose
\* text is texts[i] and whose distance is 0.
C11_SelfRetrieval ==
    AddedAlignedToEmpty =>
        \A i \in 1..Len(last.embs) :
            \A o \in SearchOutcomes(index, texts, metadatas, last.embs[i], 1) :
                /\ o.error = "none"
                /\ Len(o.results) = 1
                /\ o.results[1].text = last.txts[i]
                /\ o.results[1].distance = 0

\* C11 as amended: the one result has distance 0 and is the text of an added
\* vector equal to embeddings[i]; it is texts[i] whenever every added vector
\* equal to embeddings[i] carries the text texts[i].
C11_SelfRetrievalAmongEqualVectors ==
    AddedAlignedToEmpty =>
        \A i \in 1..Len(last.embs) :
            \A o \in SearchOutcomes(index, texts, metadatas, last.embs[i], 1) :
                /\ o.error = "none"
                /\ Len(o.results) = 1
                /\ o.results[1].distance = 0
                /\ \E j \in 1..Len(last.embs) :
                      /\ last.embs[j] = last.embs[i]
                      /\ o.results[1].text = last.txts[j]
                /\ (\A j \in 1..Len(last.embs) :
                        last.embs[j] = last.embs[i] => last.txts[j] = last.txts[i])
                      => o.results[1].text = last.txts[i]

\* two different vectors with different texts added to the empty index
C11_Witness ==
    /\ AddedAlignedToEmpty
    /\ Len(last.embs) = 2 /\ Len(index) = 2
    /\ last.embs[1] # last.embs[2]
    /\ last.txts[1] # last.txts[2]

\* C14: add_documents fails with an error whenever len(embeddings) differs
\* from len(texts) (also when exactly one of them is empty) and whenever
\* metadatas is given with len(metadatas) different from len(texts) (stated
\* for the calls that read metadatas); when metadatas is not given, each added
\* entry gets the empty mapping.
C14_AddRejectsMisalignedArguments ==
    last.op = "add" =>
        /\ last.n_embeddings # last.n_texts => last.error # "none"
        /\ (Len(last.txts) > 0 /\ last.n_metadatas # -1
                /\ last.n_metadatas # last.n_texts) => last.error # "none"
        /\ (last.n_metadatas = -1 /\ Len(last.txts) > 0) =>
               /\ Len(metadatas) = last.before + Len(last.txts)
               /\ \A i \in (last.before + 1)..Len(metadatas) :
                     metadatas[i] = EmptyMeta

\* C15: in every state reached by add_documents, search and reset_index calls,
\* add_documents calls that raise included, the stored embeddings, the stored
\* texts and the stored metadatas are equally many.
C15_CountsAgree ==
    /\ Len(index) = Len(texts)
    /\ Len(texts) = Len(metadatas)

\* C18: stored embeddings at equal distance from the query are ranked in
\* insertion order, the first-inserted first.
C18_TiesInInsertionOrder ==
    last.op = "search" =>
        LET got == ValidIds(last.ids)
        IN \A i \in 1..Len(got) : \A j \in 1..Len(got) :
               (i < j /\ SqDist(index[got[i] + 1], last.q) =
                            SqDist(index[got[j] + 1], last.q))
                   => got[i] < got[j]

\* a credential the gate must refuse: absent, not two parts, a scheme other
\* than bearer, or a token other than the secret
BadCredential(h) ==
    \/ h = NoHeader
    \/ Len(h) # 2
    \/ Lower(h[1]) # "bearer"
    \/ h[2] # REQUIRED_AUTH_TOKEN

\* run r has done nothing beyond reading its request
NothingProcessed(r) ==
    /\ locals[r] = NoLocals
    /\ llm_tasks[r] = << >>
    /\ retrieved[r] = << >>
    /\ genCalls[r] = << >>

\* C12: a request with a bad credential is answered 401 and nothing more is
\* done for it: the step that receives it ends the run, leaves the index, the
\* texts and the metadatas as they are, and the run never extracts, embeds,
\* retrieves or generates; a request with the bearer scheme and the secret is
\* never answered 401 and goes on to extraction.
C12_AuthGate ==
    /\ [](\A r \in Runs :
            pc[r] # "idle" =>
                IF BadCredential(payload[r].auth)
                THEN /\ response[r] = Reply("401", << >>, "auth")
                     /\ pc[r] = "done"
                     /\ NothingProcessed(r)
                ELSE response[r].status # "401")
    /\ [][\A r \in Runs :
            (pc[r] = "idle" /\ pc'[r] # "idle") =>
                IF BadCredential(payload'[r].auth)
                THEN UNCHANGED ivars /\ pc'[r] = "done"
                ELSE pc'[r] = "extract" /\ response'[r].status = "none"]_vars

\* a request with the right token under the Basic scheme refused while the
\* index holds another run's chunks, and that run answered 200
C12_Witness ==
    \E r \in Runs : \E s \in Runs \ {r} :
        /\ response[r].status = "401"
        /\ payload[r].auth = <<"Basic", "secret">>
        /\ Len(index) > 0
        /\ response[s].status = "200"

\* the document of run r gives no text, or text that gives no chunk
IngestionFails(d) == d \in {"docNone", "docBlank", "docZero"}

\* C13: a run with a good credential whose document gives no text (the
\* extraction failed, or the text is empty or blank) or no chunk gets no answer
\* but 400 (its only other end is the caller's cancellation) and never reaches
\* the chunk embedding, the index, a question's retrieval or a generation.
C13_IngestionFailureIs400 ==
    \A r \in Runs :
        (pc[r] # "idle" /\ ~BadCredential(payload[r].auth)
            /\ IngestionFails(payload[r].documents)) =>
            /\ response[r].status \in {"none", "400", "cancelled"}
            /\ pc[r] \in {"extract", "chunk", "done"}
            /\ (pc[r] = "done" /\ response[r].status # "cancelled") =>
                   /\ response[r].status = "400"
                   /\ response[r].answers = << >>
            /\ locals[r].chunk_embeddings = << >>
            /\ locals[r].qi = 0
            /\ llm_tasks[r] = << >>
            /\ retrieved[r] = << >>
            /\ genCalls[r] = << >>

\* the chunkless document answered 400 by the chunk check, and the other run
\* answered 400 for its blank document
C13_Witness ==
    \E r \in Runs : \E s \in Runs \ {r} :
        /\ payload[r].documents = "docZero"
        /\ response[r] = Reply("400", << >>, "chunks")
        /\ payload[s].documents = "docBlank"
        /\ response[s] = Reply("400", << >>, "text")

\* the awaits of a question unit: its embedding and its search
QuestionPcs == {"embed_q", "search_index", "search_texts"}

\* C16: within one run the reset and the add both complete before the
\* embedding or the search of any of its questions begins: a run enters its
\* first question unit only by the step in which its add_documents returns,
\* having stored the texts and metadatas of all its chunks, and a run with a
\* question unit begun, a retrieval made or a task created has reset the index
\* and embedded its chunks before.
C16_IngestBarrier ==
    /\ [](\A r \in Runs :
            (pc[r] \in QuestionPcs \/ Len(retrieved[r]) > 0 \/ Len(llm_tasks[r]) > 0) =>
                /\ locals[r].qi >= 1
                /\ Len(locals[r].text_chunks) > 0
                /\ Len(locals[r].chunk_embeddings) = Len(locals[r].text_chunks))
    /\ [][\A r \in Runs :
            (pc'[r] \in QuestionPcs /\ pc[r] \notin QuestionPcs) =>
                /\ pc[r] = "add_texts"
                /\ locals[r].qi = 0
                /\ texts' = texts \o locals[r].text_chunks
                /\ Len(metadatas') = Len(metadatas) + Len(locals[r].text_chunks)]_vars

\* the search of a run's second question under way
C16_Witness ==
    \E r \in Runs :
        /\ pc[r] = "search_texts"
        /\ locals[r].qi = 2
        /\ Len(texts) = Len(locals[r].text_chunks)

\* the step of run r in which reset_index() runs
ResetBy(r) == pc[r] = "embed" /\ pc'[r] = "add_index"

C19_FailureCancelsSiblings ==
    \A r \in Runs :
        (response[r].status = "500" /\ response[r].detail \in {"task", "embed", "search"}) =>
            \A i \in 1..Len(llm_tasks[r]) : llm_tasks[r][i].state # "pending"

C21_DimensionFixedByFirstConstruction ==
    /\ [](startup.dimension = DIMENSION /\ startup.instance = 1)
    /\ [][/\ startup'.dimension = startup.dimension
          /\ startup'.instance = startup.instance
          /\ last'.op = "new" => UNCHANGED <<index, texts, metadatas>>]_vars

\* FAISSManager(dimension=768) called on a populated index of dimension 384
C21_Witness ==
    /\ last.op = "new" /\ last.dimension = 768
    /\ startup.dimension = 384
    /\ Len(index) > 0 /\ Len(texts) > 0

\* run r was refused: 401, or 400 for its document
Rejected(r) == response[r].status \in {"401", "400"}

\* C22: a run rejected with 401 or 400 leaves the shared index as it was: no
\* step of a run with a bad credential or with a document that gives no text
\* or no chunk changes the embeddings, the texts or the metadatas, such a run
\* never holds chunk embeddings, and the chunks another run ingested remain
\* stored beside the refusal.
C22_RejectedRunLeavesIndex ==
    /\ [](\A r \in Runs :
            Rejected(r) =>
                /\ locals[r].chunk_embeddings = << >>
                /\ \A s \in Runs \ {r} :
                     (pc[s] = "done" /\ locals[s].qi >= 1) =>
                         /\ index = OwnEmbeddings(s)
                         /\ texts = ChunksOfDoc(payload[s].documents)
                         /\ Len(metadatas) = Len(texts))
    /\ [][\A r \in Runs :
            (pc'[r] # pc[r] /\ (BadCredential(payload'[r].auth)
                                \/ IngestionFails(payload'[r].documents))) =>
                UNCHANGED ivars]_vars

\* a run refused with 400 for its chunkless document while the index holds the
\* two chunks of the other run's document, answered 200
C22_Witness ==
    \E r \in Runs : \E s \in Runs \ {r} :
        /\ response[r] = Reply("400", << >>, "chunks")
        /\ response[s].status = "200" /\ payload[s].documents = "docA"
        /\ Len(index) = 2 /\ texts = ChunksOfDoc("docA")

====
